---------------------------- MODULE Spec2Model ----------------------------
(***************************************************************************)
(* A model of scripts/md_to_word.py: the Markdown parser                   *)
(* (MarkdownParser), the inline transformation (process_inline), the body  *)
(* generation (HTMLGenerator.generate), the interactive style              *)
(* configuration (ask_style_config), the handoff to the host application   *)
(* (DocumentConverter.html_to_docx) and the command line entry (main).     *)
(*                                                                         *)
(* Text is a sequence of one-character strings.  Markup produced by the    *)
(* program is a sequence in which every emitted tag is one element         *)
(* ("<strong>", "</li>", ...): no tag holds a character that any of the    *)
(* program's patterns names, so a pattern reads a tag as it reads one      *)
(* ordinary character.                                                     *)
(***************************************************************************)
EXTENDS Integers, Sequences, FiniteSets, TLC

VARIABLES
    pc,         \* the position of the run
    args,       \* the parsed command line: md_file, no_prompt, open, check_app
    fs,         \* the files: the input and what the run has written
    edits_left, \* how many more non-blank lines the operator types at a style prompt
    handles,    \* the host-application objects win32com Dispatch has returned
    detect,     \* AppDetector.detect_app: its caller and the ProgID it tries next
    conv,       \* DocumentConverter and the progress of html_to_docx
    parser,     \* MarkdownParser: content, lines, i, elements
    gen,        \* HTMLGenerator.generate: css, the index of its loop, html_body, html
    styles,     \* the StyleSet of the run
    ask,        \* ask_style_config: the prompts answered, its locals, its styles
    inline,     \* process_inline called on its own: arg, text, the next rule
    exit_code,  \* the exit status of the process once pc = "exit"
    hist        \* what has happened in the run so far

vars == <<pc, args, fs, edits_left, handles, detect, conv, parser, gen, styles,
          ask, inline, exit_code, hist>>

(***************************************************************************)
(* Text helpers: str.split, str.rstrip, str.strip, str.startswith          *)
(***************************************************************************)

\* The characters str.isspace() and the pattern \s accept.
Whitespace == {" ", "\t", "\n"}

\* The characters the pattern \d accepts.
Digits == {"0", "1", "2", "3", "4", "5", "6", "7", "8", "9"}

Min(S) == CHOOSE x \in S : \A y \in S : x <= y

\* The number of consecutive elements of s, from index i on, that are in S.
Run(s, i, S) ==
    LET ends == {j \in i..(Len(s) + 1) : \A k \in i..(j - 1) : s[k] \in S}
    IN  (CHOOSE j \in ends : \A e \in ends : e <= j) - i

\* s[i:] of Python, for a 1-based i.
From(s, i) == SubSeq(s, i, Len(s))

\* str.rstrip()
RStrip(s) ==
    LET keep == {n \in 0..Len(s) : \A k \in (n + 1)..Len(s) : s[k] \in Whitespace}
    IN  SubSeq(s, 1, Min(keep))

\* str.lstrip()
LStrip(s) == From(s, 1 + Run(s, 1, Whitespace))

\* str.strip()
Strip(s) == LStrip(RStrip(s))

\* str.startswith(p)
StartsWith(s, p) == Len(s) >= Len(p) /\ SubSeq(s, 1, Len(p)) = p

\* content.split('\n')
RECURSIVE Split(_)
Split(s) ==
    LET nl == {k \in 1..Len(s) : s[k] = "\n"}
    IN  IF nl = {} THEN <<s>>
        ELSE <<SubSeq(s, 1, Min(nl) - 1)>> \o Split(From(s, Min(nl) + 1))


(***************************************************************************)
(* MarkdownParser.parse                                                    *)
(***************************************************************************)

\* An element of the parsed document.  The program's dictionaries hold
\* "text" and "list_type" only for the kinds that carry them; here an
\* element that carries none holds the empty text and "none".
Element(type, text, list_type) ==
    [type |-> type, text |-> text, list_type |-> list_type]

\* A marker pattern that takes one whitespace character only, ^[\*\-]\s:
\* what parse would strip if the "+" of its pattern were missing.
UlMarkerLenOne(line) ==
    IF Len(line) >= 2 /\ line[1] \in {"*", "-"} /\ line[2] \in Whitespace
    THEN 2
    ELSE 0

\* The length of the match of ^[\*\-]\s+ at the start of line, 0 for none.
UlMarkerLen(line) ==
    IF Len(line) >= 2 /\ line[1] \in {"*", "-"} /\ Run(line, 2, Whitespace) >= 1
    THEN 1 + Run(line, 2, Whitespace)
    ELSE 0

\* The length of the match of ^\d+\.\s+ at the start of line, 0 for none.
OlMarkerLen(line) ==
    LET d == Run(line, 1, Digits)
    IN  IF /\ d >= 1
           /\ Len(line) >= d + 2
           /\ line[d + 1] = "."
           /\ Run(line, d + 2, Whitespace) >= 1
        THEN d + 1 + Run(line, d + 2, Whitespace)
        ELSE 0

\* The body of the loop of parse for one line of self.lines: the element
\* it appends.
ParseLine(raw) ==
    LET line == RStrip(raw)
    IN  IF line = <<>> THEN Element("empty", <<>>, "none")
        ELSE IF StartsWith(line, <<"#", " ">>)
            THEN Element("h1", Strip(From(line, 3)), "none")
        ELSE IF StartsWith(line, <<"#", "#", " ">>)
            THEN Element("h2", Strip(From(line, 4)), "none")
        ELSE IF StartsWith(line, <<"#", "#", "#", " ">>)
            THEN Element("h3", Strip(From(line, 5)), "none")
        ELSE IF UlMarkerLen(line) > 0
            THEN Element("li", From(line, UlMarkerLen(line) + 1), "ul")
        ELSE IF OlMarkerLen(line) > 0
            THEN Element("li", From(line, OlMarkerLen(line) + 1), "ol")
        ELSE Element("p", line, "none")

(***************************************************************************)
(* MarkdownParser.process_inline: five re.sub calls, in this order.  Each  *)
(* scans its text from the left, replaces the first match at the earliest  *)
(* position and goes on after it; "." accepts every character but "\n".    *)
(***************************************************************************)

\* The index of the closing delimiter of the lazy pattern dd(.+?)dd whose
\* opening delimiter (the character d, twice) is at i; 0 when nothing
\* matches at i.
PairClose(t, i, d) ==
    LET ends == {j \in (i + 3)..(Len(t) - 1) :
                    /\ t[j] = d /\ t[j + 1] = d
                    /\ \A k \in (i + 2)..(j - 1) : t[k] # "\n"}
    IN  IF i + 1 <= Len(t) /\ t[i] = d /\ t[i + 1] = d /\ ends # {}
        THEN Min(ends) ELSE 0

\* re.sub(r'dd(.+?)dd', r'<tag>\1</tag>', t), from index i on.
RECURSIVE PairSub(_, _, _, _, _)
PairSub(t, i, d, open, close) ==
    IF i > Len(t) THEN <<>>
    ELSE LET j == PairClose(t, i, d)
         IN  IF j # 0
             THEN <<open>> \o SubSeq(t, i + 2, j - 1) \o <<close>>
                      \o PairSub(t, j + 2, d, open, close)
             ELSE <<t[i]>> \o PairSub(t, i + 1, d, open, close)

\* A "*" at i that (?<!\*)\*(?!\*) accepts: no "*" before it or after it.
LoneStar(t, i) ==
    /\ i >= 1 /\ i <= Len(t) /\ t[i] = "*"
    /\ (i = 1 \/ t[i - 1] # "*")
    /\ (i = Len(t) \/ t[i + 1] # "*")

\* The index of the closing "*" of (?<!\*)\*(?!\*)(.+?)(?<!\*)\*(?!\*)
\* whose opening "*" is at i; 0 when nothing matches at i.
EmClose(t, i) ==
    LET ends == {j \in (i + 2)..Len(t) :
                    /\ LoneStar(t, j)
                    /\ \A k \in (i + 1)..(j - 1) : t[k] # "\n"}
    IN  IF LoneStar(t, i) /\ ends # {} THEN Min(ends) ELSE 0

RECURSIVE EmSubFrom(_, _)
EmSubFrom(t, i) ==
    IF i > Len(t) THEN <<>>
    ELSE LET j == EmClose(t, i)
         IN  IF j # 0
             THEN <<"<em>">> \o SubSeq(t, i + 1, j - 1) \o <<"</em>">>
                      \o EmSubFrom(t, j + 1)
             ELSE <<t[i]>> \o EmSubFrom(t, i + 1)

\* The first index from i on that holds c, 0 for none.
Find(t, i, c) ==
    LET at == {k \in i..Len(t) : t[k] = c}
    IN  IF at = {} THEN 0 ELSE Min(at)

\* \[([^\]]+)\]\(([^\)]+)\) at i: <<index of "]", index of ")">>, or
\* <<0, 0>> when nothing matches at i.
LinkAt(t, i) ==
    LET rb == Find(t, i + 1, "]")
        rp == IF rb = 0 THEN 0 ELSE Find(t, rb + 2, ")")
    IN  IF /\ i <= Len(t) /\ t[i] = "["
           /\ rb >= i + 2
           /\ rb + 1 <= Len(t) /\ t[rb + 1] = "("
           /\ rp >= rb + 3
        THEN <<rb, rp>> ELSE <<0, 0>>

RECURSIVE LinkSubFrom(_, _)
LinkSubFrom(t, i) ==
    IF i > Len(t) THEN <<>>
    ELSE LET m == LinkAt(t, i)
         IN  IF m[1] # 0
             THEN <<"<a href=\"">> \o SubSeq(t, m[1] + 2, m[2] - 1) \o <<"\">">>
                      \o SubSeq(t, i + 1, m[1] - 1) \o <<"</a>">>
                      \o LinkSubFrom(t, m[2] + 1)
             ELSE <<t[i]>> \o LinkSubFrom(t, i + 1)

\* The backquote character (U+0060), which a string of this language
\* cannot hold: the one element of a text that is not written as itself.
Backquote == "BACKQUOTE"

\* The pattern of line 232, a backquote, ([^backquote]+), a backquote, at i:
\* the index of the closing backquote, 0 for none.
CodeClose(t, i) ==
    LET j == Find(t, i + 1, Backquote)
    IN  IF i <= Len(t) /\ t[i] = Backquote /\ j >= i + 2 THEN j ELSE 0

RECURSIVE CodeSubFrom(_, _)
CodeSubFrom(t, i) ==
    IF i > Len(t) THEN <<>>
    ELSE LET j == CodeClose(t, i)
         IN  IF j # 0
             THEN <<"<code>">> \o SubSeq(t, i + 1, j - 1) \o <<"</code>">>
                      \o CodeSubFrom(t, j + 1)
             ELSE <<t[i]>> \o CodeSubFrom(t, i + 1)

\* The five rewritings, by the line of process_inline that makes each.
StrongSub(t) == PairSub(t, 1, "*", "<strong>", "</strong>")
EmSub(t) == EmSubFrom(t, 1)
StrikeSub(t) == PairSub(t, 1, "~", "<s>", "</s>")
LinkSub(t) == LinkSubFrom(t, 1)
CodeSub(t) == CodeSubFrom(t, 1)

InlineStage(t, stage) ==
    CASE stage = 0 -> StrongSub(t)
      [] stage = 1 -> EmSub(t)
      [] stage = 2 -> StrikeSub(t)
      [] stage = 3 -> LinkSub(t)
      [] stage = 4 -> CodeSub(t)

process_inline(t) == CodeSub(LinkSub(StrikeSub(EmSub(StrongSub(t)))))

(***************************************************************************)
(* The style model: FontConfig, ParagraphConfig, ElementStyle and          *)
(* DEFAULT_STYLES.  The names of the two typefaces and the display names   *)
(* are Chinese in the program; the typefaces are written here by their     *)
(* Latin names (SimHei, FangSong_GB2312) and the display names by the      *)
(* kind they name.                                                         *)
(***************************************************************************)

Keys == {"h1", "h2", "h3", "p", "li"}

SimHei == <<"S", "i", "m", "H", "e", "i">>
FangSong == <<"F", "a", "n", "g", "S", "o", "n", "g", "_", "G", "B", "2", "3", "1", "2">>
Center == <<"c", "e", "n", "t", "e", "r">>
Left == <<"l", "e", "f", "t">>
Justify == <<"j", "u", "s", "t", "i", "f", "y">>

ElementStyle(name, family, size, line_spacing, space_before, space_after, align, first_line_indent) ==
    [name |-> name,
     font |-> [family |-> family, size |-> size],
     paragraph |-> [line_spacing |-> line_spacing,
                    space_before |-> space_before,
                    space_after |-> space_after,
                    align |-> align,
                    first_line_indent |-> first_line_indent]]

DEFAULT_STYLES ==
    [k \in Keys |->
        CASE k = "h1" -> ElementStyle("heading 1", SimHei, 16, 30, 0, 12, Center, 0)
          [] k = "h2" -> ElementStyle("heading 2", SimHei, 16, 30, 12, 12, Left, 0)
          [] k = "h3" -> ElementStyle("heading 3", SimHei, 16, 28, 6, 6, Left, 0)
          [] k = "p" -> ElementStyle("body", FangSong, 16, 28, 0, 0, Justify, 2)
          [] k = "li" -> ElementStyle("list", FangSong, 16, 28, 0, 0, Justify, 0)]

(***************************************************************************)
(* HTMLGenerator                                                           *)
(***************************************************************************)

\* generate_css: one rule for each key of the StyleSet.  The rule of "li"
\* binds ul and ol, holds no weight and no indent, and has margins of 0; a
\* rule holds a text-indent only for a first_line_indent above 0 (here 0:
\* no text-indent in the rule).
CssRule(elem_type, style) ==
    IF elem_type = "li"
    THEN [selector |-> "ul, ol",
          font_family |-> style.font.family,
          font_size |-> style.font.size,
          font_weight |-> "none",
          text_align |-> style.paragraph.align,
          line_height |-> style.paragraph.line_spacing,
          margin_top |-> 0,
          margin_bottom |-> 0,
          text_indent |-> 0]
    ELSE [selector |-> elem_type,
          font_family |-> style.font.family,
          font_size |-> style.font.size,
          font_weight |-> IF elem_type \in {"h1", "h2", "h3"} THEN "bold" ELSE "normal",
          text_align |-> style.paragraph.align,
          line_height |-> style.paragraph.line_spacing,
          margin_top |-> style.paragraph.space_before,
          margin_bottom |-> style.paragraph.space_after,
          text_indent |-> IF style.paragraph.first_line_indent > 0
                          THEN style.paragraph.first_line_indent ELSE 0]

generate_css(st) == [k \in DOMAIN st |-> CssRule(k, st[k])]

OpenTag(tag) ==
    CASE tag = "h1" -> "<h1>" [] tag = "h2" -> "<h2>" [] tag = "h3" -> "<h3>"
      [] tag = "p" -> "<p>" [] tag = "ul" -> "<ul>" [] tag = "ol" -> "<ol>"

CloseTag(tag) ==
    CASE tag = "h1" -> "</h1>" [] tag = "h2" -> "</h2>" [] tag = "h3" -> "</h3>"
      [] tag = "p" -> "</p>" [] tag = "ul" -> "</ul>" [] tag = "ol" -> "</ol>"

\* What the loop of generate appends to html_body for one element.
Container(elem) ==
    IF elem.type = "empty" THEN <<"<p>", "&nbsp;", "</p>">>
    ELSE IF elem.type = "li"
        THEN <<OpenTag(elem.list_type), "<li>">> \o process_inline(elem.text)
                 \o <<"</li>", CloseTag(elem.list_type)>>
    ELSE <<OpenTag(elem.type)>> \o process_inline(elem.text) \o <<CloseTag(elem.type)>>

\* A loop that keeps one list open over consecutive items: an item whose
\* predecessor in html_body is a list of the same kind goes into that list.
AppendContainerMerged(html_body, elem) ==
    LET n == Len(html_body)
    IN  IF /\ elem.type = "li" /\ n >= 1
           /\ html_body[n][1] = OpenTag(elem.list_type)
        THEN [html_body EXCEPT ![n] =
                 SubSeq(@, 1, Len(@) - 1) \o <<"<li>">> \o process_inline(elem.text)
                     \o <<"</li>", CloseTag(elem.list_type)>>]
        ELSE Append(html_body, Container(elem))

\* html_body after the loop of generate has taken one more element.
AppendContainer(html_body, elem) == Append(html_body, Container(elem))

\* ''.join(html_body)
RECURSIVE Join(_)
Join(parts) == IF parts = <<>> THEN <<>> ELSE Head(parts) \o Join(Tail(parts))

(***************************************************************************)
(* The values of the variables a run has not touched yet                   *)
(***************************************************************************)

NoParser == [content |-> <<>>, lines |-> <<>>, i |-> 0, elements |-> <<>>]
NoGen == [css |-> <<>>, k |-> 0, html_body |-> <<>>, html |-> <<>>]
NoInline == [arg |-> <<>>, text |-> <<>>, stage |-> 0]
NoArgs == [md_file |-> FALSE, no_prompt |-> FALSE, open |-> FALSE, check_app |-> FALSE]
NoFile == [exists |-> FALSE, content |-> <<>>, html |-> FALSE, docx |-> FALSE]
NoDetect == [caller |-> "none", idx |-> 1]
NoConv == [app |-> 0, app_name |-> "None", open_file |-> FALSE, opened |-> FALSE, margins |-> 0,
           saved |-> FALSE, closed |-> FALSE, returned |-> FALSE, result |-> FALSE]
EmptyDict == [k \in {} |-> 0]
NoAsk == [n |-> 0, cur |-> <<>>, styles |-> EmptyDict, eof |-> FALSE,
          abandoned |-> FALSE, returned |-> FALSE]
NoHist == [input_read |-> FALSE, handoff_started |-> FALSE, no_app |-> FALSE,
           host_raised |-> FALSE, quit_swallowed |-> FALSE,
           converted |-> "none", raised |-> "none"]

(***************************************************************************)
(* MarkdownParser(content).parse() and HTMLGenerator(styles).generate(),   *)
(* as convert_md_to_word calls them: one step for each turn of a loop.     *)
(***************************************************************************)

\* MarkdownParser.__init__, and the first two lines of parse
ParserInit ==
    /\ pc = "parser_init"
    /\ parser' = [parser EXCEPT !.lines = Split(parser.content),
                                !.i = 0, !.elements = <<>>]
    /\ pc' = "parse"
    /\ UNCHANGED <<args, fs, edits_left, handles, detect, conv, gen, styles,
                   ask, inline, exit_code, hist>>

\* One turn of the loop of parse: every branch appends one element and
\* adds 1 to i.
ParseStep ==
    /\ pc = "parse"
    /\ parser.i < Len(parser.lines)
    /\ parser' = [parser EXCEPT
                     !.elements = Append(@, ParseLine(parser.lines[parser.i + 1])),
                     !.i = @ + 1]
    /\ UNCHANGED <<pc, args, fs, edits_left, handles, detect, conv, gen, styles,
                   ask, inline, exit_code, hist>>

\* parse returns; HTMLGenerator(styles); generate computes css.
Generate ==
    /\ pc = "parse"
    /\ parser.i >= Len(parser.lines)
    /\ gen' = [css |-> generate_css(styles), k |-> 0, html_body |-> <<>>,
               html |-> <<>>]
    /\ pc' = "generate"
    /\ UNCHANGED <<args, fs, edits_left, handles, detect, conv, parser, styles,
                   ask, inline, exit_code, hist>>

\* One turn of the loop of generate.
GenStep ==
    /\ pc = "generate"
    /\ gen.k < Len(parser.elements)
    /\ gen' = [gen EXCEPT
                  !.html_body = AppendContainer(@, parser.elements[gen.k + 1]),
                  !.k = @ + 1]
    /\ UNCHANGED <<pc, args, fs, edits_left, handles, detect, conv, parser,
                   styles, ask, inline, exit_code, hist>>

\* A convert_md_to_word that hands over to the converter straight after
\* generate, the intermediate markup file not written.
AfterGenerateHandoff == "html_to_docx"

\* The statement of convert_md_to_word that follows generate: the
\* intermediate markup file is written, and only then is the converter made.
AfterGenerate == "write_html"

\* generate returns the document: the body is ''.join(html_body).
GenReturn ==
    /\ pc = "generate"
    /\ gen.k >= Len(parser.elements)
    /\ gen' = [gen EXCEPT !.html = Join(gen.html_body)]
    /\ pc' = AfterGenerate
    /\ UNCHANGED <<args, fs, edits_left, handles, detect, conv, parser, styles,
                   ask, inline, exit_code, hist>>

(***************************************************************************)
(* process_inline, rule by rule                                            *)
(***************************************************************************)

InlineRule(stage) ==
    /\ pc = "process_inline"
    /\ inline.stage = stage
    /\ inline' = [inline EXCEPT !.text = InlineStage(inline.text, stage),
                                !.stage = stage + 1]
    /\ UNCHANGED <<pc, args, fs, edits_left, handles, detect, conv, parser, gen,
                   styles, ask, exit_code, hist>>

InlineStrong == InlineRule(0)
InlineEm == InlineRule(1)
InlineStrike == InlineRule(2)
InlineLink == InlineRule(3)
InlineCode == InlineRule(4)

(***************************************************************************)
(* The run: main, interactive_mode, convert_md_to_word                     *)
(***************************************************************************)

\* An exception nobody catches ends the process with status 1.
Crash(cause) ==
    /\ pc' = "exit"
    /\ exit_code' = 1
    /\ hist' = [hist EXCEPT !.raised = cause]

\* main, after parse_args: --check-app, a missing path, --no-prompt, or
\* interactive_mode, which first probes for an application.
Main ==
    /\ pc = "main"
    /\ IF args.check_app
       THEN /\ pc' = "detect_app"
            /\ detect' = [caller |-> "check_app", idx |-> 1]
            /\ UNCHANGED exit_code
       ELSE IF ~args.md_file
       THEN /\ pc' = "exit"
            /\ exit_code' = 1
            /\ UNCHANGED detect
       ELSE IF args.no_prompt
       THEN /\ pc' = "convert"
            /\ UNCHANGED <<detect, exit_code>>
       ELSE /\ pc' = "detect_app"
            /\ detect' = [caller |-> "interactive_mode", idx |-> 1]
            /\ UNCHANGED exit_code
    /\ UNCHANGED <<args, fs, edits_left, handles, conv, parser, gen, styles, ask,
                   inline, hist>>

(***************************************************************************)
(* AppDetector.detect_app                                                  *)
(***************************************************************************)

\* WORD_PROG_IDS followed by WPS_PROG_IDS, in the order detect_app tries them.
ProgIds ==
    <<"Word.Application", "Word.Application.16", "Word.Application.15",
      "Word.Application.14", "WPS.Application", "KWps.Application">>

\* A host-application object as Dispatch returns it: where it was acquired
\* and what became of Quit on it: "no" call, a call that "raised", or "done".
Handle(origin) == [origin |-> origin, quit |-> "no"]

\* The application name detect_app returns with the ProgID at index idx.
AppName(idx) == IF idx <= 4 THEN "Word" ELSE "WPS"

\* One win32com.client.Dispatch(prog_id) of detect_app.  The object of a
\* Dispatch that succeeds is dropped: detect_app returns the ProgID and the
\* name alone.  A Dispatch that raises moves on to the next ProgID; after
\* the last one detect_app returns (None, "None").  main with --check-app
\* and interactive_mode print the name and go on; _get_app goes on with
\* the ProgID.
DetectApp ==
    /\ pc = "detect_app"
    /\ \E ok \in BOOLEAN :
        LET returns == ok \/ detect.idx = Len(ProgIds)
        IN  /\ handles' = IF ok THEN Append(handles, Handle("detect_app"))
                          ELSE handles
            /\ detect' = IF ~returns THEN [detect EXCEPT !.idx = @ + 1]
                         ELSE IF detect.caller = "_get_app"
                             THEN [detect EXCEPT !.idx = IF ok THEN @ ELSE 0]
                         ELSE NoDetect
            /\ pc' = IF ~returns THEN "detect_app"
                     ELSE CASE detect.caller = "check_app" -> "exit"
                            [] detect.caller = "interactive_mode" -> "ask_use_default"
                            [] detect.caller = "_get_app" -> "get_app"
            /\ exit_code' = IF returns /\ detect.caller = "check_app" THEN 0
                            ELSE exit_code
    /\ UNCHANGED <<args, fs, edits_left, conv, parser, gen, styles, ask, inline,
                   hist>>

(***************************************************************************)
(* The interactive prompts: input() returns a line or raises EOFError      *)
(***************************************************************************)

Typed(line) == [eof |-> FALSE, line |-> line]
EndOfInput == [eof |-> TRUE, line |-> <<>>]

\* str.lower(), on the letters the operator types here.
Lower(s) ==
    [k \in 1..Len(s) |-> CASE s[k] = "Y" -> "y" [] s[k] = "N" -> "n"
                           [] OTHER -> s[k]]

\* The answers ask_yes_no takes for yes and for no (the program also lists
\* one Chinese word for each).
YesWords == {<<"y">>, <<"y", "e", "s">>}
NoWords == {<<"n">>, <<"n", "o">>}

\* One turn of the loop of ask_yes_no: "yes", "no", or "again" for an answer
\* it does not know, after which it asks again.
ask_yes_no(r, default) ==
    LET response == Lower(Strip(r.line))
        dflt == IF default THEN "yes" ELSE "no"
    IN  IF r.eof THEN dflt
        ELSE IF response = <<>> THEN dflt
        ELSE IF response \in YesWords THEN "yes"
        ELSE IF response \in NoWords THEN "no"
        ELSE "again"

\* What the operator may type at a yes/no prompt.
YesNoLines == {<<>>, <<"y">>, <<" ", "Y">>, <<"n", "o">>, <<"m">>}
YesNoInputs == {EndOfInput} \cup {Typed(l) : l \in YesNoLines}

\* interactive_mode: ask_yes_no("use the default styles?", default=True)
AskUseDefault ==
    /\ pc = "ask_use_default"
    /\ \E r \in YesNoInputs :
        LET a == ask_yes_no(r, TRUE)
        IN  /\ pc' = CASE a = "yes" -> "convert"
                       [] a = "no" -> "ask_style"
                       [] a = "again" -> "ask_use_default"
            /\ styles' = IF a = "yes" THEN DEFAULT_STYLES ELSE styles
            /\ ask' = IF a = "no" THEN NoAsk ELSE ask
    /\ UNCHANGED <<args, fs, edits_left, handles, detect, conv, parser, gen,
                   inline, exit_code, hist>>

(***************************************************************************)
(* ask_style_config: fifteen prompts, five for each of h1, h2 and p        *)
(***************************************************************************)

\* The default each prompt names, in the order of the prompts: family,
\* size, align, line spacing, then space after (h1, h2) or indent (p).
PromptDefaults ==
    <<SimHei, <<"1", "6">>, Center, <<"3", "0">>, <<"1", "2">>,
      SimHei, <<"1", "6">>, Left, <<"3", "0">>, <<"1", "2">>,
      FangSong, <<"1", "6">>, Justify, <<"2", "8">>, <<"2">>>>

\* input(...).strip() or default
Answer(line, default) == IF Strip(line) = <<>> THEN default ELSE Strip(line)

\* float(s) for the texts typed here: a text of decimal digits is its
\* number, any other text raises ValueError.
IsFloat(s) == s # <<>> /\ \A k \in 1..Len(s) : s[k] \in Digits

DigitValue(c) ==
    CASE c = "0" -> 0 [] c = "1" -> 1 [] c = "2" -> 2 [] c = "3" -> 3
      [] c = "4" -> 4 [] c = "5" -> 5 [] c = "6" -> 6 [] c = "7" -> 7
      [] c = "8" -> 8 [] c = "9" -> 9

RECURSIVE Float(_)
Float(s) ==
    IF s = <<>> THEN 0
    ELSE 10 * Float(SubSeq(s, 1, Len(s) - 1)) + DigitValue(s[Len(s)])

\* The key whose ElementStyle is built after prompt n (5, 10 or 15).
GroupKey(n) == CASE n = 5 -> "h1" [] n = 10 -> "h2" [] n = 15 -> "p"

\* Whether the float() calls of the ElementStyle built from the five
\* answers cur all succeed: size, line spacing and the fifth answer.
GroupWellFormed(cur) == IsFloat(cur[2]) /\ IsFloat(cur[4]) /\ IsFloat(cur[5])

\* The ElementStyle built from the five answers cur of one group.
GroupStyle(key, cur) ==
    CASE key = "h1" -> ElementStyle("heading 1", cur[1], Float(cur[2]),
                                    Float(cur[4]), 0, Float(cur[5]), cur[3], 0)
      [] key = "h2" -> ElementStyle("heading 2", cur[1], Float(cur[2]),
                                    Float(cur[4]), 12, Float(cur[5]), cur[3], 0)
      [] key = "p" -> ElementStyle("body", cur[1], Float(cur[2]),
                                   Float(cur[4]), 0, 0, cur[3], Float(cur[5]))

\* A handler that returns the groups answered so far and fills in the
\* defaults for the others only.
OnEOFErrorPartial(partial) == partial @@ DEFAULT_STYLES

\* except EOFError: return DEFAULT_STYLES, whatever styles holds by then.
OnEOFError(partial) == DEFAULT_STYLES

\* After the third group: styles["h3"] and styles["li"] are the defaults.
WithInherited(partial) ==
    partial @@ ("h3" :> DEFAULT_STYLES["h3"]) @@ ("li" :> DEFAULT_STYLES["li"])

\* What the operator may type at a style prompt.
StyleLines == {<<>>, <<" ">>, <<"1", "8", " ">>, <<"x">>}
StyleInputs == {EndOfInput} \cup {Typed(l) : l \in StyleLines}

\* Whether the dictionary holds an ElementStyle that is not the default one.
Overridden(partial) == \E k \in DOMAIN partial : partial[k] # DEFAULT_STYLES[k]

\* One input() of ask_style_config, with the statements up to the next
\* one: after the fifth answer of a group its ElementStyle is built, and
\* after the last group the function returns styles.  Its locals end with
\* the call; ask keeps how it ended: by EOFError or not, and whether an
\* override was held when the EOFError came.
AskStyleConfig ==
    /\ pc = "ask_style"
    /\ \E r \in StyleInputs :
        LET n == ask.n + 1
            cur == Append(ask.cur, Answer(r.line, PromptDefaults[n]))
            edit == ~r.eof /\ Strip(r.line) # <<>>
            built == ask.styles @@ (GroupKey(n) :> GroupStyle(GroupKey(n), cur))
        IN  /\ edit => edits_left > 0
            /\ edits_left' = IF edit THEN edits_left - 1 ELSE edits_left
            /\ IF r.eof
               THEN /\ styles' = OnEOFError(ask.styles)
                    /\ ask' = [NoAsk EXCEPT !.eof = TRUE, !.returned = TRUE,
                                             !.abandoned = Overridden(ask.styles)]
                    /\ pc' = "convert"
                    /\ UNCHANGED <<exit_code, hist>>
               ELSE IF n \notin {5, 10, 15}
               THEN /\ ask' = [ask EXCEPT !.n = n, !.cur = cur]
                    /\ UNCHANGED <<pc, styles, exit_code, hist>>
               ELSE IF ~GroupWellFormed(cur)
               THEN /\ ask' = [ask EXCEPT !.n = n, !.cur = cur]
                    /\ Crash("ValueError")
                    /\ UNCHANGED styles
               ELSE IF n < 15
               THEN /\ ask' = [ask EXCEPT !.n = n, !.cur = <<>>, !.styles = built]
                    /\ UNCHANGED <<pc, styles, exit_code, hist>>
               ELSE /\ ask' = [NoAsk EXCEPT !.returned = TRUE]
                    /\ styles' = WithInherited(built)
                    /\ pc' = "convert"
                    /\ UNCHANGED <<exit_code, hist>>
    /\ UNCHANGED <<args, fs, handles, detect, conv, parser, gen, inline>>

(***************************************************************************)
(* convert_md_to_word                                                      *)
(***************************************************************************)

\* The check of md_path_obj.exists(): a missing input returns None at once.
Convert ==
    /\ pc = "convert"
    /\ IF fs.exists
       THEN /\ pc' = "read_input"
            /\ UNCHANGED hist
       ELSE /\ pc' = "result"
            /\ hist' = [hist EXCEPT !.converted = "failed"]
    /\ UNCHANGED <<args, fs, edits_left, handles, detect, conv, parser, gen,
                   styles, ask, inline, exit_code>>

\* open(md_path, 'r') and f.read(), which need the file; an OSError or a
\* UnicodeDecodeError is caught nowhere.
ReadInput ==
    /\ pc = "read_input"
    /\ \E ok \in BOOLEAN :
        IF ok /\ fs.exists
        THEN /\ parser' = [NoParser EXCEPT !.content = fs.content]
             /\ hist' = [hist EXCEPT !.input_read = TRUE]
             /\ pc' = "parser_init"
             /\ UNCHANGED exit_code
        ELSE /\ Crash("OSError")
             /\ UNCHANGED parser
    /\ UNCHANGED <<args, fs, edits_left, handles, detect, conv, gen, styles, ask,
                   inline>>

\* open(html_path, 'w') and f.write(html_content).  A failure is caught
\* nowhere; when it is the write that fails, open has already made the file.
WriteHtml ==
    /\ pc = "write_html"
    /\ \E outcome \in {"ok", "open_fails", "write_fails"} :
        /\ fs' = [fs EXCEPT !.html = (@ \/ outcome # "open_fails")]
        /\ IF outcome = "ok"
           THEN /\ pc' = "html_to_docx"
                /\ UNCHANGED <<exit_code, hist>>
           ELSE Crash("OSError")
    /\ UNCHANGED <<args, edits_left, handles, detect, conv, parser, gen, styles,
                   ask, inline>>

(***************************************************************************)
(* DocumentConverter.html_to_docx(html_path, docx_path, open_file=False)   *)
(***************************************************************************)

\* A try block that ends before the Quit of the success path.
CaughtExceptQuit(step) ==
    step \in {"get_app", "set_visible", "open_doc", "margins", "save_as",
              "close_doc"}

\* Whether the statement at this position of html_to_docx is inside its
\* try block: every statement that touches the host application is.
Caught(step) ==
    step \in {"get_app", "set_visible", "open_doc", "margins", "save_as",
              "close_doc", "quit_app"}

\* The host application raises at the statement at position step.
Raise(step) ==
    IF Caught(step)
    THEN /\ pc' = "except"
         /\ hist' = [hist EXCEPT !.host_raised = TRUE]
         /\ UNCHANGED exit_code
    ELSE /\ pc' = "exit"
         /\ exit_code' = 1
         /\ hist' = [hist EXCEPT !.host_raised = TRUE, !.raised = "com_error"]

\* The statement at position step went through.
Proceed(next) ==
    /\ pc' = next
    /\ UNCHANGED <<exit_code, hist>>

\* DocumentConverter(silent), and the call of html_to_docx up to _get_app,
\* which begins with detect_app.
HtmlToDocx ==
    /\ pc = "html_to_docx"
    /\ conv' = NoConv
    /\ detect' = [caller |-> "_get_app", idx |-> 1]
    /\ hist' = [hist EXCEPT !.handoff_started = TRUE]
    /\ pc' = "detect_app"
    /\ UNCHANGED <<args, fs, edits_left, handles, parser, gen, styles, ask,
                   inline, exit_code>>

\* _get_app after detect_app (detect.idx is the index of the ProgID it
\* returned, 0 for None): no ProgID returns (None, None) and html_to_docx
\* returns False; else the application is dispatched again and becomes
\* self.app, with its name as self.app_name.
GetApp ==
    /\ pc = "get_app"
    /\ IF detect.idx = 0
       THEN /\ conv' = [conv EXCEPT !.returned = TRUE, !.result = FALSE]
            /\ hist' = [hist EXCEPT !.no_app = TRUE]
            /\ pc' = "returned"
            /\ UNCHANGED <<handles, exit_code>>
       ELSE \E ok \in BOOLEAN :
            IF ok
            THEN /\ handles' = Append(handles, Handle("_get_app"))
                 /\ conv' = [conv EXCEPT !.app = Len(handles) + 1,
                                         !.app_name = AppName(detect.idx)]
                 /\ Proceed("set_visible")
            ELSE /\ Raise("get_app")
                 /\ UNCHANGED <<handles, conv>>
    /\ detect' = NoDetect
    /\ UNCHANGED <<args, fs, edits_left, parser, gen, styles, ask, inline>>

\* self.app.Visible = False
SetVisible ==
    /\ pc = "set_visible"
    /\ \E ok \in BOOLEAN :
        IF ok THEN Proceed("open_doc") ELSE Raise("set_visible")
    /\ UNCHANGED <<args, fs, edits_left, handles, detect, conv, parser, gen,
                   styles, ask, inline>>

\* doc = self.app.Documents.Open(html_path_abs)
OpenDoc ==
    /\ pc = "open_doc"
    /\ \E ok \in BOOLEAN :
        IF ok
        THEN /\ conv' = [conv EXCEPT !.opened = TRUE]
             /\ Proceed("margins")
        ELSE /\ Raise("open_doc")
             /\ UNCHANGED conv
    /\ UNCHANGED <<args, fs, edits_left, handles, detect, parser, gen, styles,
                   ask, inline>>

\* One of the four assignments to doc.PageSetup: TopMargin, BottomMargin,
\* LeftMargin, RightMargin.
SetMargin ==
    /\ pc = "margins"
    /\ \E ok \in BOOLEAN :
        IF ok
        THEN /\ conv' = [conv EXCEPT !.margins = @ + 1]
             /\ Proceed(IF conv.margins + 1 = 4 THEN "save_as" ELSE "margins")
        ELSE /\ Raise("margins")
             /\ UNCHANGED conv
    /\ UNCHANGED <<args, fs, edits_left, handles, detect, parser, gen, styles,
                   ask, inline>>

\* doc.SaveAs2(docx_path_abs, FileFormat=12)
SaveAs2 ==
    /\ pc = "save_as"
    /\ \E ok \in BOOLEAN :
        IF ok
        THEN /\ conv' = [conv EXCEPT !.saved = TRUE]
             /\ fs' = [fs EXCEPT !.docx = TRUE]
             /\ Proceed("close_doc")
        ELSE /\ Raise("save_as")
             /\ UNCHANGED <<conv, fs>>
    /\ UNCHANGED <<args, edits_left, handles, detect, parser, gen, styles, ask,
                   inline>>

\* doc.Close(SaveChanges=False)
CloseDoc ==
    /\ pc = "close_doc"
    /\ \E ok \in BOOLEAN :
        IF ok
        THEN /\ conv' = [conv EXCEPT !.closed = TRUE]
             /\ Proceed("quit_app")
        ELSE /\ Raise("close_doc")
             /\ UNCHANGED conv
    /\ UNCHANGED <<args, fs, edits_left, handles, detect, parser, gen, styles,
                   ask, inline>>

\* handles after self.app.Quit() on the handle at index app.
Quit(hs, app, ok) ==
    [hs EXCEPT ![app].quit = IF ok \/ @ = "done" THEN "done" ELSE "raised"]

\* if open_file: self.app.Visible = True, else: self.app.Quit(); then
\* return True.
QuitApp ==
    /\ pc = "quit_app"
    /\ \E ok \in BOOLEAN :
        /\ handles' = IF conv.open_file THEN handles
                      ELSE Quit(handles, conv.app, ok)
        /\ IF ok
           THEN /\ conv' = [conv EXCEPT !.returned = TRUE, !.result = TRUE]
                /\ Proceed("returned")
           ELSE /\ Raise("quit_app")
                /\ UNCHANGED conv
    /\ UNCHANGED <<args, fs, edits_left, detect, parser, gen, styles, ask, inline>>

\* except Exception: the message, then self.app.Quit() when self.app is
\* set, a failure of which is passed over, then return False.
Except ==
    /\ pc = "except"
    /\ \E ok \in BOOLEAN :
        /\ (conv.app = 0) => ok
        /\ handles' = IF conv.app # 0 THEN Quit(handles, conv.app, ok)
                      ELSE handles
        /\ hist' = [hist EXCEPT !.quit_swallowed = (@ \/ ~ok)]
    /\ conv' = [conv EXCEPT !.returned = TRUE, !.result = FALSE]
    /\ pc' = "returned"
    /\ UNCHANGED <<args, fs, edits_left, detect, parser, gen, styles, ask, inline,
                   exit_code>>

\* convert_md_to_word returns the path of the .docx when html_to_docx
\* returned True, and None otherwise.
ConvertReturn ==
    /\ pc = "returned"
    /\ hist' = [hist EXCEPT !.converted = IF conv.result THEN "ok" ELSE "failed"]
    /\ pc' = "result"
    /\ UNCHANGED <<args, fs, edits_left, handles, detect, conv, parser, gen,
                   styles, ask, inline, exit_code>>

(***************************************************************************)
(* main and interactive_mode after convert_md_to_word has returned         *)
(***************************************************************************)

\* os.startfile(result_path) raises, caught nowhere, or the caller goes on
\* to its end and main returns.
StartFile(ok) ==
    IF ok
    THEN /\ pc' = "exit"
         /\ exit_code' = 0
         /\ UNCHANGED hist
    ELSE Crash("OSError")

\* main with --no-prompt: a result is printed and, with --open, started;
\* no result is sys.exit(1).  interactive_mode: a result asks whether to
\* open it; no result prints the failure and returns.
Result ==
    /\ pc = "result"
    /\ IF args.no_prompt
       THEN IF hist.converted = "ok"
            THEN \E ok \in BOOLEAN : (~args.open => ok) /\ StartFile(ok)
            ELSE /\ pc' = "exit"
                 /\ exit_code' = 1
                 /\ UNCHANGED hist
       ELSE IF hist.converted = "ok"
            THEN /\ pc' = "ask_open"
                 /\ UNCHANGED <<exit_code, hist>>
            ELSE /\ pc' = "exit"
                 /\ exit_code' = 0
                 /\ UNCHANGED hist
    /\ UNCHANGED <<args, fs, edits_left, handles, detect, conv, parser, gen,
                   styles, ask, inline>>

\* interactive_mode: ask_yes_no("open the document?", default=False), and
\* os.startfile on yes.
AskOpen ==
    /\ pc = "ask_open"
    /\ \E r \in YesNoInputs, ok \in BOOLEAN :
        LET a == ask_yes_no(r, FALSE)
        IN  /\ (a # "yes") => ok
            /\ IF a = "again"
               THEN UNCHANGED <<pc, exit_code, hist>>
               ELSE StartFile(ok)
    /\ UNCHANGED <<args, fs, edits_left, handles, detect, conv, parser, gen,
                   styles, ask, inline>>

(***************************************************************************)
(* The inputs and the specifications                                       *)
(***************************************************************************)

\* All texts of length n, and of length at most n, over the characters cs.
RECURSIVE TextsOfLen(_, _)
TextsOfLen(cs, n) ==
    IF n = 0 THEN {<<>>}
    ELSE {Append(t, c) : t \in TextsOfLen(cs, n - 1), c \in cs}

TextsUpTo(cs, n) == UNION {TextsOfLen(cs, k) : k \in 0..n}

\* '\n'.join(ls)
RECURSIVE JoinLines(_)
JoinLines(ls) ==
    IF Len(ls) = 0 THEN <<>>
    ELSE IF Len(ls) = 1 THEN ls[1]
    ELSE ls[1] \o <<"\n">> \o JoinLines(Tail(ls))

\* The longest text after the marker of a one-line document.
MaxBody == 2
\* The most lines of a document of several lines.
MaxLines == 4
\* The longest of the texts A, B, C between the delimiters of an inline text.
MaxPart == 2
\* The most non-blank lines the operator types at the style prompts.
MaxEdits == 2

\* One-line documents: a marker, or a text that is nearly one, then
\* whitespace or none, then a short text.
Markers ==
    {<<>>, <<"#">>, <<"#", "#">>, <<"#", "#", "#">>, <<"#", "#", "#", "#">>,
     <<"-">>, <<"*">>, <<"1">>, <<"1", ".">>, <<"1", "2", ".">>}
Gaps == {<<>>, <<" ">>, <<"\t">>, <<" ", " ">>}
BodyChars == {"a", " ", "#", "-"}
OneLineDocs ==
    {m \o g \o b : m \in Markers, g \in Gaps, b \in TextsUpTo(BodyChars, MaxBody)}

\* Documents of up to MaxLines lines, each one of a few kinds of line.
SampleLines ==
    {<<>>, <<" ">>, <<"-", " ", "a">>, <<"1", ".", " ", "a">>, <<"#", " ", "a">>,
     <<"a">>}
ManyLineDocs ==
    {JoinLines(ls) : ls \in UNION {[1..n -> SampleLines] : n \in 1..MaxLines}}

ParseDocs == OneLineDocs \cup ManyLineDocs

\* The documents a whole run converts.
RunDocs ==
    {<<>>, <<"#", " ", "a", "\n", "\n", "-", " ", "*", "b", "*">>}

\* Inline texts: "**" A "*" B "*" C "**" with A, B, C free of "*" and B
\* not empty, and one text for each of the three later rules.
PartChars == {"a", " "}
Nested(A, B, C) == <<"*", "*">> \o A \o <<"*">> \o B \o <<"*">> \o C \o <<"*", "*">>
NestedTexts ==
    {Nested(A, B, C) : A \in TextsUpTo(PartChars, MaxPart),
                       B \in TextsUpTo(PartChars, MaxPart) \ {<<>>},
                       C \in TextsUpTo(PartChars, MaxPart)}
OtherTexts ==
    {<<"~", "~", "a", "~", "~">>, <<Backquote, "a", Backquote>>,
     <<"[", "a", "]", "(", "b", ")">>}
InlineTexts == NestedTexts \cup OtherTexts

\* A run of main: any command line, an input file that is there or not.
Init ==
    /\ pc = "main"
    /\ args \in [md_file : BOOLEAN, no_prompt : BOOLEAN, open : BOOLEAN,
                 check_app : BOOLEAN]
    /\ fs \in {NoFile} \cup {[NoFile EXCEPT !.exists = TRUE, !.content = c] :
                                c \in RunDocs}
    /\ edits_left = MaxEdits
    /\ handles = <<>>
    /\ detect = NoDetect
    /\ conv = NoConv
    /\ parser = NoParser
    /\ gen = NoGen
    /\ styles = DEFAULT_STYLES
    /\ ask = NoAsk
    /\ inline = NoInline
    /\ exit_code = 0
    /\ hist = NoHist

Next ==
    \/ Main \/ DetectApp \/ AskUseDefault \/ AskStyleConfig
    \/ Convert \/ ReadInput \/ ParserInit \/ ParseStep \/ Generate \/ GenStep
    \/ GenReturn \/ WriteHtml
    \/ HtmlToDocx \/ GetApp \/ SetVisible \/ OpenDoc \/ SetMargin \/ SaveAs2
    \/ CloseDoc \/ QuitApp \/ Except \/ ConvertReturn
    \/ Result \/ AskOpen

Spec == Init /\ [][Next]_vars

\* MarkdownParser(content).parse() and generate() with the default styles,
\* on a document of ParseDocs.
InitParse ==
    /\ pc = "parser_init"
    /\ parser \in {[NoParser EXCEPT !.content = c] : c \in ParseDocs}
    /\ args = NoArgs /\ fs = NoFile /\ edits_left = 0 /\ handles = <<>>
    /\ detect = NoDetect /\ conv = NoConv /\ gen = NoGen
    /\ styles = DEFAULT_STYLES /\ ask = NoAsk /\ inline = NoInline
    /\ exit_code = 0 /\ hist = NoHist

NextParse == ParserInit \/ ParseStep \/ Generate \/ GenStep \/ GenReturn

SpecParse == InitParse /\ [][NextParse]_vars

\* process_inline on a text of InlineTexts.
InitInline ==
    /\ pc = "process_inline"
    /\ inline \in {[arg |-> t, text |-> t, stage |-> 0] : t \in InlineTexts}
    /\ args = NoArgs /\ fs = NoFile /\ edits_left = 0 /\ handles = <<>>
    /\ detect = NoDetect /\ conv = NoConv /\ parser = NoParser /\ gen = NoGen
    /\ styles = DEFAULT_STYLES /\ ask = NoAsk
    /\ exit_code = 0 /\ hist = NoHist

NextInline ==
    InlineStrong \/ InlineEm \/ InlineStrike \/ InlineLink \/ InlineCode

SpecInline == InitInline /\ [][NextInline]_vars

\* ask_style_config called on its own.
InitStyle ==
    /\ pc = "ask_style"
    /\ edits_left = MaxEdits
    /\ ask = NoAsk
    /\ args = NoArgs /\ fs = NoFile /\ handles = <<>>
    /\ detect = NoDetect /\ conv = NoConv /\ parser = NoParser /\ gen = NoGen
    /\ styles = DEFAULT_STYLES /\ inline = NoInline
    /\ exit_code = 0 /\ hist = NoHist

NextStyle == AskStyleConfig

SpecStyle == InitStyle /\ [][NextStyle]_vars

(***************************************************************************)
(* The claims                                                              *)
(***************************************************************************)

\* C1: a run of main that is given an input path, silent or interactive,
\* ends with a non-zero exit status whenever no host application was
\* found, the input file does not exist, or the conversion reported failure.
C1_ExitStatusNonZero ==
    (/\ pc = "exit"
     /\ args.md_file /\ ~args.check_app
     /\ (hist.no_app \/ ~fs.exists \/ hist.converted = "failed"))
    => exit_code # 0

\* C2: when the run ends, Quit has been called on every host-application
\* object a Dispatch of detect_app or of _get_app returned.
C2_EveryHandleQuit ==
    pc = "exit" => \A h \in 1..Len(handles) : handles[h].quit # "no"

\* C3: no failure of the host application leaves html_to_docx as an
\* exception: a run that entered html_to_docx and ended has seen it return;
\* it returned False whenever a step of it raised, and True only with the
\* document opened, its four margins set, saved and closed.
C3_FailuresBecomeFalse ==
    /\ hist.raised # "com_error"
    /\ (pc = "exit" /\ hist.handoff_started) => conv.returned
    /\ (conv.returned /\ hist.host_raised) => ~conv.result
    /\ (conv.returned /\ conv.result) =>
           /\ ~hist.host_raised
           /\ conv.opened /\ conv.margins = 4 /\ conv.saved /\ conv.closed

\* C3, its case: a step raised, the Quit of the handler raised as well, and
\* html_to_docx returned False.
C3_QuitFailureSwallowed ==
    /\ conv.returned /\ ~conv.result
    /\ hist.host_raised /\ hist.quit_swallowed
    /\ conv.saved

\* C4: ask_style_config returns a StyleSet of exactly the five keys; after
\* an end of input at any prompt every key holds its built-in default, and
\* after fifteen well-formed answers h3 and li hold theirs.
C4_StyleSetComplete ==
    ask.returned =>
        /\ DOMAIN styles = Keys
        /\ ask.eof => \A k \in Keys : styles[k] = DEFAULT_STYLES[k]
        /\ ~ask.eof => /\ styles["h3"] = DEFAULT_STYLES["h3"]
                       /\ styles["li"] = DEFAULT_STYLES["li"]

\* C4, its case: the end of input came when an ElementStyle that differs
\* from the default had already been built.
C4_OverrideAbandoned == ask.returned /\ ask.eof /\ ask.abandoned

\* C5: with no input file the run writes neither the intermediate markup
\* file nor the .docx and never starts html_to_docx; the markup file is
\* written only once the input was found and read, and html_to_docx starts
\* only once it is written.
C5_NoFileWithoutInput ==
    /\ ~fs.exists => (~fs.html /\ ~fs.docx /\ ~hist.handoff_started)
    /\ fs.html => (fs.exists /\ hist.input_read)
    /\ hist.handoff_started => fs.html

\* C5, its case: convert_md_to_word was called on a missing input and the
\* run has ended.
C5_MissingInputRefused ==
    pc = "exit" /\ ~fs.exists /\ hist.converted = "failed"

\* The parse of parser.content is complete.
Parsed == pc \in {"generate", "write_html"}

OneLine(c) == \A k \in 1..Len(c) : c[k] # "\n"

Trimmed(t) == t = <<>> \/ (t[1] \notin Whitespace /\ t[Len(t)] \notin Whitespace)

\* C6: for a text T of one line with no whitespace at either end, empty or
\* not, parsing "# " + T gives exactly one element, an h1 whose text is T.
C6_HeadingTrim ==
    LET c == parser.content
    IN  (/\ Parsed /\ OneLine(c)
         /\ StartsWith(c, <<"#", " ">>)
         /\ Trimmed(From(c, 3)))
        => parser.elements = <<Element("h1", From(c, 3), "none")>>

\* C7: a line that begins with "### " is an h3, one that begins with "## "
\* an h2 and one that begins with "# " an h1.
C7_MarkerDecides ==
    LET c == parser.content
    IN  (Parsed /\ OneLine(c)) =>
            /\ StartsWith(c, <<"#", "#", "#", " ">>) => parser.elements[1].type = "h3"
            /\ StartsWith(c, <<"#", "#", " ">>) => parser.elements[1].type = "h2"
            /\ StartsWith(c, <<"#", " ">>) => parser.elements[1].type = "h1"

\* C8: a line made of "-" or "*", then one or more whitespace characters,
\* then a text X that is not empty and has no whitespace at either end, is
\* parsed to one li of list_type ul and text X; a line made of one or more
\* digits, ".", whitespace and X to one li of list_type ol and text X.
C8_ListMarkerStripped ==
    LET c == parser.content
        n == Len(c)
    IN  (Parsed /\ OneLine(c) /\ n >= 1 /\ c[n] \notin Whitespace) =>
            /\ \A x \in 3..n :
                   (/\ c[1] \in {"-", "*"}
                    /\ \A j \in 2..(x - 1) : c[j] \in Whitespace
                    /\ c[x] \notin Whitespace)
                   => parser.elements = <<Element("li", SubSeq(c, x, n), "ul")>>
            /\ \A d \in 1..n : \A x \in (d + 3)..n :
                   (/\ \A j \in 1..d : c[j] \in Digits
                    /\ c[d + 1] = "."
                    /\ \A j \in (d + 2)..(x - 1) : c[j] \in Whitespace
                    /\ c[x] \notin Whitespace)
                   => parser.elements = <<Element("li", SubSeq(c, x, n), "ol")>>

\* C8, its case: "*", two blanks, then a text that itself begins with "-".
C8_MarkerAndTwoBlanks ==
    /\ Parsed
    /\ parser.content = <<"*", " ", " ", "-", "a">>
    /\ parser.elements = <<Element("li", <<"-", "a">>, "ul")>>

\* C9: parse appends one element for each line of the input, in its order,
\* and generate one container for each element, in its order: a blank line
\* gives an empty element and a blank paragraph of its own, a list item a
\* list of its own with that one item.
C9_OnePerLine ==
    LET c == parser.content
        n == 1 + Cardinality({k \in 1..Len(c) : c[k] = "\n"})
        es == parser.elements
        hb == gen.html_body
    IN  /\ pc \in {"parse", "generate", "write_html"} =>
               /\ Len(parser.lines) = n
               /\ Len(es) = parser.i
               /\ \A i \in 1..Len(es) :
                      /\ es[i] = ParseLine(parser.lines[i])
                      /\ (\A k \in 1..Len(parser.lines[i]) :
                              parser.lines[i][k] \in Whitespace)
                         <=> es[i].type = "empty"
        /\ Parsed => Len(es) = n
        /\ pc \in {"generate", "write_html"} =>
               /\ Len(hb) = gen.k
               /\ \A i \in 1..Len(hb) :
                      /\ es[i].type = "empty" => hb[i] = <<"<p>", "&nbsp;", "</p>">>
                      /\ es[i].type = "li" =>
                             /\ hb[i][1] = OpenTag(es[i].list_type)
                             /\ hb[i][Len(hb[i])] = CloseTag(es[i].list_type)
                             /\ Cardinality({k \in 1..Len(hb[i]) : hb[i][k] = "<li>"}) = 1
                      /\ es[i].type \notin {"empty", "li"} =>
                             /\ hb[i][1] = OpenTag(es[i].type)
                             /\ hb[i][Len(hb[i])] = CloseTag(es[i].type)
        /\ pc = "write_html" => /\ Len(hb) = n
                                /\ gen.html = Join(hb)

\* C9, its case: two blank lines, then two list items.
C9_BlanksAndItems ==
    /\ pc = "write_html"
    /\ parser.lines = << <<>>, <<>>, <<"-", " ", "a">>, <<"-", " ", "a">> >>
    /\ Len(gen.html_body) = 4

\* C10: for A, B, C free of "*" and B not empty, process_inline turns
\* "**" A "*" B "*" C "**" into one strong element around the whole, with
\* one emphasis element around B inside it, and leaves no "*".
C10_NestedEmphasis ==
    (pc = "process_inline" /\ inline.stage = 5) =>
        \A A \in TextsUpTo(PartChars, MaxPart), C \in TextsUpTo(PartChars, MaxPart) :
        \A B \in TextsUpTo(PartChars, MaxPart) \ {<<>>} :
            inline.arg = Nested(A, B, C) =>
                inline.text = <<"<strong>">> \o A \o <<"<em>">> \o B \o <<"</em>">>
                                  \o C \o <<"</strong>">>

============================================================================
